---------------------------- MODULE Spec2Model ----------------------------
(***************************************************************************)
(* Referential-integrity checks of the RPD validator                       *)
(* (rpdvalidator/validate.py): the six dangling-reference checks, the      *)
(* uniqueness check and validate_references, over bounded JSON documents.  *)
(*                                                                         *)
(* rpdvalidator/jsonpath_utils.py (find_all, find_all_by_jsonpaths,        *)
(* json_paths_to_lists) is not among the sources; those three operators    *)
(* follow sections 4.1, 4.2 and 4.4 of the specification.                  *)
(***************************************************************************)
EXTENDS Integers, Sequences, FiniteSets, TLC

(***************************************************************************)
(* Document nodes (JSON values as Python objects).                         *)
(* An object is a function from field names to nodes, an array a sequence  *)
(* of nodes, a string scalar carries its text, a number its value.         *)
(***************************************************************************)
Obj(f) == [t |-> "obj", v |-> f]

Arr(s) == [t |-> "arr", v |-> s]

Str(s) == [t |-> "str", v |-> s]

Num(n) == [t |-> "num", v |-> n]

Null == [t |-> "null", v |-> 0]

EmptyObj == Obj(<<>>)

(***************************************************************************)
(* Path expressions: a sequence of steps after the root "$".               *)
(*   Root      "$"                                                          *)
(*   F(name)   ".name"     a field step                                    *)
(*   W         "[*]"       the array wildcard                              *)
(*   I(i)      "[i]"       a concrete index (only in reported paths)       *)
(***************************************************************************)
Root == <<"$">>

F(name) == <<"f", name>>

W == <<"w">>

I(i) == <<"i", i>>

\* The steps of a textual path "$.a[*].b", given as its tokens a, *, b.
Parse(tokens) ==
  <<Root>> \o [i \in 1..Len(tokens) |->
                 IF tokens[i] = "*" THEN W ELSE F(tokens[i])]

RECURSIVE EvalSteps(_, _)
RECURSIVE EvalEach(_, _, _)
\* The matches of `steps` below `node`, depth first, in document order.
EvalSteps(steps, node) ==
  IF steps = <<>> THEN <<node>>
  ELSE IF Head(steps) = W
       THEN IF node.t = "arr" THEN EvalEach(Tail(steps), node.v, 1) ELSE <<>>
       ELSE IF node.t = "obj" /\ Head(steps)[2] \in DOMAIN node.v
            THEN EvalSteps(Tail(steps), node.v[Head(steps)[2]])
            ELSE <<>>

EvalEach(steps, elems, i) ==
  IF i > Len(elems) THEN <<>>
  ELSE EvalSteps(steps, elems[i]) \o EvalEach(steps, elems, i + 1)

\* find_all(jpath, obj): the values matched by one path expression.
find_all(jpath, obj) == EvalSteps(Tail(jpath), obj)

RECURSIVE find_all_by_jsonpaths(_, _)
\* find_all_by_jsonpaths(jpaths, obj): the results of each path, concatenated
\* in declaration order.
find_all_by_jsonpaths(jpaths, obj) ==
  IF jpaths = <<>> THEN <<>>
  ELSE find_all(Head(jpaths), obj) \o find_all_by_jsonpaths(Tail(jpaths), obj)

RECURSIVE PathsToLists(_, _)
PathsToLists(val, path) ==
  IF val.t = "obj"
  THEN UNION {PathsToLists(val.v[k], Append(path, F(k))) : k \in DOMAIN val.v}
  ELSE IF val.t = "arr"
       THEN {path} \cup
            UNION {PathsToLists(val.v[i], Append(path, W)) : i \in 1..Len(val.v)}
       ELSE {}

\* json_paths_to_lists(val): every generalized path at which a list is found.
json_paths_to_lists(val) == PathsToLists(val, <<Root>>)

(***************************************************************************)
(* The path lists of the checks.                                           *)
(***************************************************************************)
\* validate.py lines 105-108
fluid_loop_id_jsonpaths ==
  << Parse(<<"ruleset_model_descriptions", "*", "fluid_loops", "*", "id">>),
     Parse(<<"ruleset_model_descriptions", "*", "fluid_loops", "*", "child_loops", "*", "id">>) >>

\* validate.py lines 110-127
fluid_reference_jsonpaths ==
  << Parse(<<"ruleset_model_descriptions", "*", "chillers", "*", "cooling_loop">>),
     Parse(<<"ruleset_model_descriptions", "*", "chillers", "*", "condensing_loop">>),
     Parse(<<"ruleset_model_descriptions", "*", "chillers", "*", "heat_recovery_loop">>),
     Parse(<<"ruleset_model_descriptions", "*", "buildings", "*", "building_segments", "*", "heating_ventilating_air_conditioning_systems", "*", "heating_system", "hot_water_loop">>),
     Parse(<<"ruleset_model_descriptions", "*", "buildings", "*", "building_segments", "*", "heating_ventilating_air_conditioning_systems", "*", "heating_system", "water_source_heat_pump_loop">>),
     Parse(<<"ruleset_model_descriptions", "*", "buildings", "*", "building_segments", "*", "heating_ventilating_air_conditioning_systems", "*", "cooling_system", "chilled_water_loop">>),
     Parse(<<"ruleset_model_descriptions", "*", "buildings", "*", "building_segments", "*", "heating_ventilating_air_conditioning_systems", "*", "cooling_system", "condenser_water_loop">>),
     Parse(<<"ruleset_model_descriptions", "*", "buildings", "*", "building_segments", "*", "zones", "*", "spaces", "*", "miscellaneous_equipment", "*", "energy_from_loop">>),
     Parse(<<"ruleset_model_descriptions", "*", "buildings", "*", "building_segments", "*", "zones", "*", "spaces", "*", "miscellaneous_equipment", "*", "remaining_fraction_to_loop">>),
     Parse(<<"ruleset_model_descriptions", "*", "buildings", "*", "building_segments", "*", "zones", "*", "terminals", "*", "cooling_from_loop">>),
     Parse(<<"ruleset_model_descriptions", "*", "buildings", "*", "building_segments", "*", "zones", "*", "terminals", "*", "heating_from_loop">>),
     Parse(<<"ruleset_model_descriptions", "*", "service_water_heating_equipment", "*", "hot_water_loop">>),
     Parse(<<"ruleset_model_descriptions", "*", "heat_rejections", "*", "loop">>),
     Parse(<<"ruleset_model_descriptions", "*", "boilers", "*", "loop">>),
     Parse(<<"ruleset_model_descriptions", "*", "service_water_heating_equipment", "*", "hot_water_loop">>),
     Parse(<<"ruleset_model_descriptions", "*", "external_fluid_sources", "*", "loop">>) >>

\* validate.py lines 157-175
zone_reference_jsonpaths ==
  << Parse(<<"ruleset_model_descriptions", "*", "buildings", "*", "elevators", "*", "motor_location_zone">>),
     Parse(<<"ruleset_model_descriptions", "*", "buildings", "*", "elevators", "*", "cab_location_zone">>),
     Parse(<<"ruleset_model_descriptions", "*", "buildings", "*", "refrigerated_cases", "*", "zone">>),
     Parse(<<"ruleset_model_descriptions", "*", "service_water_heating_equipment", "*", "compressor_zone">>),
     Parse(<<"ruleset_model_descriptions", "*", "service_water_heating_equipment", "*", "compressor_heat_rejection_zone">>),
     Parse(<<"ruleset_model_descriptions", "*", "buildings", "*", "building_segments", "*", "zones", "*", "zonal_exhaust_fan", "motor_location_zone">>),
     Parse(<<"ruleset_model_descriptions", "*", "buildings", "*", "building_segments", "*", "zones", "*", "terminals", "*", "fan", "motor_location_zone">>),
     Parse(<<"ruleset_model_descriptions", "*", "buildings", "*", "building_segments", "*", "heating_ventilating_air_conditioning_systems", "*", "fan_system", "supply_fans", "*", "motor_location_zone">>),
     Parse(<<"ruleset_model_descriptions", "*", "buildings", "*", "building_segments", "*", "heating_ventilating_air_conditioning_systems", "*", "fan_system", "return_fans", "*", "motor_location_zone">>),
     Parse(<<"ruleset_model_descriptions", "*", "buildings", "*", "building_segments", "*", "heating_ventilating_air_conditioning_systems", "*", "fan_system", "relief_fans", "*", "motor_location_zone">>),
     Parse(<<"ruleset_model_descriptions", "*", "buildings", "*", "building_segments", "*", "heating_ventilating_air_conditioning_systems", "*", "fan_system", "exhaust_fans", "*", "motor_location_zone">>),
     Parse(<<"ruleset_model_descriptions", "*", "service_water_heating_equipment", "*", "tank", "location_zone">>),
     Parse(<<"ruleset_model_descriptions", "*", "service_water_heating_equipment", "*", "solar_thermal_systems", "*", "tank", "location_zone">>),
     Parse(<<"ruleset_model_descriptions", "*", "service_water_heating_distribution_systems", "*", "tanks", "*", "location_zone">>),
     Parse(<<"ruleset_model_descriptions", "*", "buildings", "*", "building_segments", "*", "zones", "*", "surfaces", "*", "adjacent_zone">>),
     Parse(<<"ruleset_model_descriptions", "*", "buildings", "*", "building_segments", "*", "zones", "*", "transfer_airflow_source_zone">>),
     Parse(<<"ruleset_model_descriptions", "*", "service_water_heating_distribution_systems", "*", "service_water_piping", "*", "location_zone">>) >>

\* validate.py lines 176-179
zone_id_jsonpath ==
  Parse(<<"ruleset_model_descriptions", "*", "buildings", "*", "building_segments", "*", "zones", "*", "id">>)

\* validate.py lines 204-204
schedule_id_jsonpath ==
  Parse(<<"ruleset_model_descriptions", "*", "schedules", "*", "id">>)

\* validate.py lines 205-231
schedule_reference_jsonpaths ==
  << Parse(<<"ruleset_model_descriptions", "*", "buildings", "*", "elevators", "*", "cab_motor_multiplier_schedule">>),
     Parse(<<"ruleset_model_descriptions", "*", "buildings", "*", "elevators", "*", "cab_ventilation_fan_multiplier_schedule">>),
     Parse(<<"ruleset_model_descriptions", "*", "buildings", "*", "elevators", "*", "cab_lighting_multiplier_schedule">>),
     Parse(<<"ruleset_model_descriptions", "*", "buildings", "*", "refrigerated_cases", "*", "power_multiplier_schedule">>),
     Parse(<<"ruleset_model_descriptions", "*", "buildings", "*", "exterior_lighting", "*", "multiplier_schedule">>),
     Parse(<<"ruleset_model_descriptions", "*", "buildings", "*", "building_segments", "*", "zones", "*", "infiltration", "multiplier_schedule">>),
     Parse(<<"ruleset_model_descriptions", "*", "buildings", "*", "building_segments", "*", "zones", "*", "thermostat_cooling_setpoint_schedule">>),
     Parse(<<"ruleset_model_descriptions", "*", "buildings", "*", "building_segments", "*", "zones", "*", "thermostat_heating_setpoint_schedule">>),
     Parse(<<"ruleset_model_descriptions", "*", "buildings", "*", "building_segments", "*", "zones", "*", "minimum_humidity_setpoint_schedule">>),
     Parse(<<"ruleset_model_descriptions", "*", "buildings", "*", "building_segments", "*", "zones", "*", "maximum_humidity_setpoint_schedule">>),
     Parse(<<"ruleset_model_descriptions", "*", "buildings", "*", "building_segments", "*", "zones", "*", "exhaust_airflow_rate_multiplier_schedule">>),
     Parse(<<"ruleset_model_descriptions", "*", "buildings", "*", "building_segments", "*", "zones", "*", "spaces", "*", "occupant_multiplier_schedule">>),
     Parse(<<"ruleset_model_descriptions", "*", "buildings", "*", "building_segments", "*", "zones", "*", "spaces", "*", "interior_lighting", "*", "lighting_multiplier_schedule">>),
     Parse(<<"ruleset_model_descriptions", "*", "service_water_heating_distribution_systems", "*", "flow_multiplier_schedule">>),
     Parse(<<"ruleset_model_descriptions", "*", "service_water_heating_distribution_systems", "*", "entering_water_mains_temperature_schedule">>),
     Parse(<<"ruleset_model_descriptions", "*", "buildings", "*", "building_segments", "*", "zones", "*", "spaces", "*", "service_water_heating_uses", "*", "use_multiplier_schedule">>),
     Parse(<<"ruleset_model_descriptions", "*", "buildings", "*", "building_open_schedule">>),
     Parse(<<"ruleset_model_descriptions", "*", "buildings", "*", "building_segments", "*", "zones", "*", "terminals", "*", "minimum_outdoor_airflow_multiplier_schedule">>),
     Parse(<<"ruleset_model_descriptions", "*", "buildings", "*", "building_segments", "*", "zones", "*", "spaces", "*", "miscellaneous_equipment", "*", "multiplier_schedule">>),
     Parse(<<"ruleset_model_descriptions", "*", "fluid_loops", "*", "cooling_or_condensing_design_and_control", "operation_schedule">>),
     Parse(<<"ruleset_model_descriptions", "*", "fluid_loops", "*", "heating_design_and_control", "operation_schedule">>),
     Parse(<<"ruleset_model_descriptions", "*", "fluid_loops", "*", "child_loops", "*", "cooling_or_condensing_design_and_control", "operation_schedule">>),
     Parse(<<"ruleset_model_descriptions", "*", "fluid_loops", "*", "child_loops", "*", "heating_design_and_control", "operation_schedule">>),
     Parse(<<"ruleset_model_descriptions", "*", "heating_ventilation_air_conditioning_systems", "*", "fan_system", "supply_air_temperature_reset_schedule">>),
     Parse(<<"ruleset_model_descriptions", "*", "heating_ventilation_air_conditioning_systems", "*", "fan_system", "operating_schedule">>) >>

\* validate.py lines 256-260
fluid_loop_or_piping_id_jsonpaths ==
  << Parse(<<"ruleset_model_descriptions", "*", "fluid_loops", "*", "id">>),
     Parse(<<"ruleset_model_descriptions", "*", "service_water_heating_distribution_systems", "*", "service_water_piping", "*", "id">>),
     Parse(<<"ruleset_model_descriptions", "*", "fluid_loops", "*", "child_loops", "*", "id">>) >>

\* validate.py lines 266-269
loop_or_piping_reference_jsonpath ==
  Parse(<<"ruleset_model_descriptions", "*", "pumps", "*", "loop_or_piping">>)

\* validate.py lines 291-294
service_water_heating_id_jsonpath ==
  Parse(<<"ruleset_model_descriptions", "*", "service_water_heating_distribution_systems", "*", "id">>)

\* validate.py lines 296-300
service_water_heating_reference_jsonpaths ==
  << Parse(<<"ruleset_model_descriptions", "*", "buildings", "*", "building_segments", "*", "zones", "*", "spaces", "*", "service_water_heating_uses", "*", "served_by_distribution_system">>),
     Parse(<<"ruleset_model_descriptions", "*", "buildings", "*", "building_segments", "*", "zones", "*", "served_by_service_water_heating_system">>),
     Parse(<<"ruleset_model_descriptions", "*", "service_water_heating_equipment", "*", "distribution_system">>) >>

\* validate.py lines 327-330
hvac_id_jsonpath ==
  Parse(<<"ruleset_model_descriptions", "*", "buildings", "*", "building_segments", "*", "heating_ventilating_air_conditioning_systems", "*", "id">>)

\* validate.py lines 331-334
served_by_hvac_jsonpath ==
  Parse(<<"ruleset_model_descriptions", "*", "buildings", "*", "building_segments", "*", "zones", "*", "terminals", "*", "served_by_heating_ventilating_air_conditioning_system">>)

(***************************************************************************)
(* Python helpers used by the checks.                                      *)
(***************************************************************************)
\* `x in list` (equality of values).
Contains(list, x) == \E i \in 1..Len(list) : list[i] = x

RECURSIVE MismatchLoopOnce(_, _, _)
\* MismatchLoop reporting each dangling value once.
MismatchLoopOnce(referenced, id_list, mismatch_list) ==
  IF referenced = <<>> THEN mismatch_list
  ELSE MismatchLoopOnce(Tail(referenced), id_list,
                        IF ~Contains(id_list, Head(referenced))
                           /\ ~Contains(mismatch_list, Head(referenced))
                        THEN Append(mismatch_list, Head(referenced))
                        ELSE mismatch_list)

RECURSIVE MismatchLoop(_, _, _)
\* for x in referenced: if x not in id_list: mismatch_list.append(x)
MismatchLoop(referenced, id_list, mismatch_list) ==
  IF referenced = <<>> THEN mismatch_list
  ELSE MismatchLoop(Tail(referenced), id_list,
                    IF ~Contains(id_list, Head(referenced))
                    THEN Append(mismatch_list, Head(referenced))
                    ELSE mismatch_list)

\* A value returned, or an exception raised.
Returned(value) == [raised |-> FALSE, value |-> value]

Raised(exc) == [raised |-> TRUE, value |-> exc]

\* Pieces of formatted text: literal text, a path, the repr of a list.
Text(s) == [tok |-> "text", v |-> s]

PathText(p) == [tok |-> "path", v |-> p]

ListText(l) == [tok |-> "list", v |-> l]

\* Python's None.
None == [tok |-> "None", v |-> <<>>]

\* The characters of the string scalars of the document domain.
Chars(s) ==
  CASE s = "ab" -> <<"a", "b">>
    [] s = "sys-1" -> <<"s", "y", "s", "-", "1">>
    [] s = "sys-9" -> <<"s", "y", "s", "-", "9">>
    [] OTHER -> <<s>>

\* Some enumeration of a finite set as a sequence.
RECURSIVE SetToSeq(_)
SetToSeq(S) ==
  IF S = {} THEN <<>>
  ELSE LET x == CHOOSE y \in S : TRUE IN <<x>> \o SetToSeq(S \ {x})

\* Every enumeration of a finite set as a sequence (set iteration order).
Orderings(S) ==
  {s \in [1..Cardinality(S) -> S] : \A i, j \in 1..Cardinality(S) : s[i] = s[j] => i = j}

\* enumerate(x): the items a for-loop visits, or TypeError when x is not iterable.
Iterate(x) ==
  CASE x.t = "arr" -> Returned(x.v)
    [] x.t = "obj" -> Returned([i \in 1..Cardinality(DOMAIN x.v) |->
                                  Str(SetToSeq(DOMAIN x.v)[i])])
    [] x.t = "str" -> Returned([i \in 1..Len(Chars(x.v)) |-> Str(Chars(x.v)[i])])
    [] OTHER -> Raised("TypeError")

\* Whether set(ids) can be built: dicts and lists are unhashable.
Hashable(ids) == \A i \in 1..Len(ids) : ids[i].t \notin {"obj", "arr"}

\* '; '.join(paths)
RECURSIVE Join(_)
Join(paths) ==
  IF paths = <<>> THEN <<>>
  ELSE IF Len(paths) = 1 THEN <<PathText(paths[1])>>
  ELSE <<PathText(paths[1]), Text("; ")>> \o Join(Tail(paths))

(***************************************************************************)
(* The six dangling-reference checks.                                      *)
(***************************************************************************)
check_fluid_loop_association(rpd_) ==
  LET fluid_loop_id_list == find_all_by_jsonpaths(fluid_loop_id_jsonpaths, rpd_)
      referenced_id_list == find_all_by_jsonpaths(fluid_reference_jsonpaths, rpd_)
  IN  MismatchLoop(referenced_id_list, fluid_loop_id_list, <<>>)

check_zone_association(rpd_) ==
  LET zone_id_list == find_all(zone_id_jsonpath, rpd_)
      referenced_id_list == find_all_by_jsonpaths(zone_reference_jsonpaths, rpd_)
  IN  MismatchLoop(referenced_id_list, zone_id_list, <<>>)

check_schedule_association(rpd_) ==
  LET schedule_id_list == find_all(schedule_id_jsonpath, rpd_)
      referenced_id_list == find_all_by_jsonpaths(schedule_reference_jsonpaths, rpd_)
  IN  MismatchLoop(referenced_id_list, schedule_id_list, <<>>)

RECURSIVE MismatchPerInstance(_, _, _)
\* The pump references of each model description matched against the loop and
\* piping ids of that model description alone.
MismatchPerInstance(instances, k, mismatch_list) ==
  IF k > Len(instances) THEN mismatch_list
  ELSE LET alone == Obj("ruleset_model_descriptions" :> Arr(<<instances[k]>>))
       IN  MismatchPerInstance(instances, k + 1,
             MismatchLoop(find_all(loop_or_piping_reference_jsonpath, alone),
                          find_all_by_jsonpaths(fluid_loop_or_piping_id_jsonpaths, alone),
                          mismatch_list))

\* check_fluid_loop_or_piping_association resolving references within each
\* model description.
check_fluid_loop_or_piping_association_per_instance(rpd_) ==
  MismatchPerInstance(find_all(Parse(<<"ruleset_model_descriptions", "*">>), rpd_),
                      1, <<>>)

check_fluid_loop_or_piping_association(rpd_) ==
  LET fluid_loop_or_piping_id_list ==
        find_all_by_jsonpaths(fluid_loop_or_piping_id_jsonpaths, rpd_)
      referenced_fluid_loop_or_piping_id_list ==
        find_all(loop_or_piping_reference_jsonpath, rpd_)
  IN  MismatchLoop(referenced_fluid_loop_or_piping_id_list,
                   fluid_loop_or_piping_id_list, <<>>)

check_service_water_heating_association(rpd_) ==
  LET service_water_heating_id_list == find_all(service_water_heating_id_jsonpath, rpd_)
      referenced_service_water_heating_id_list ==
        find_all_by_jsonpaths(service_water_heating_reference_jsonpaths, rpd_)
  IN  MismatchLoop(referenced_service_water_heating_id_list,
                   service_water_heating_id_list, <<>>)

check_hvac_association(rpd_) ==
  LET hvac_id_list == find_all(hvac_id_jsonpath, rpd_)
      served_by_hvac_id_list == find_all(served_by_hvac_jsonpath, rpd_)
  IN  MismatchLoop(served_by_hvac_id_list, hvac_id_list, <<>>)

(***************************************************************************)
(* The uniqueness check.                                                   *)
(***************************************************************************)
\* GetRulesetModelDescriptions as rpd["ruleset_model_descriptions"]: KeyError
\* when the field is absent.
GetRulesetModelDescriptionsStrict(rpd_) ==
  IF rpd_.t # "obj" THEN Raised("TypeError")
  ELSE IF "ruleset_model_descriptions" \in DOMAIN rpd_.v
       THEN Returned(rpd_.v["ruleset_model_descriptions"])
       ELSE Raised("KeyError")

\* rpd.get("ruleset_model_descriptions", []): AttributeError when rpd is no dict.
GetRulesetModelDescriptions(rpd_) ==
  IF rpd_.t # "obj" THEN Raised("AttributeError")
  ELSE IF "ruleset_model_descriptions" \in DOMAIN rpd_.v
       THEN Returned(rpd_.v["ruleset_model_descriptions"])
       ELSE Returned(Arr(<<>>))

\* IdsAt taking None for an element without an id.
IdsAtOrNone(list_path, rmi) ==
  LET elements == find_all(Append(list_path, W), rmi)
  IN  [k \in 1..Len(elements) |->
         IF elements[k].t = "obj" /\ "id" \in DOMAIN elements[k].v
         THEN elements[k].v["id"]
         ELSE Null]

\* ids = find_all(list_path + "[*].id", rmi)
IdsAt(list_path, rmi) == find_all(list_path \o <<W, F("id")>>, rmi)

\* NotUnique missing a single repeat.
NotUniqueByTwo(ids) == Len(ids) > Cardinality({ids[i] : i \in 1..Len(ids)}) + 1

\* len(ids) != len(set(ids))
NotUnique(ids) == Len(ids) # Cardinality({ids[i] : i \in 1..Len(ids)})

\* BadPath counting the instances from 1.
BadPathOneBased(rmi_index, list_path) ==
  <<F("ruleset_model_descriptions"), I(rmi_index + 1)>> \o Tail(list_path)

\* f"ruleset_model_descriptions[{rmi_index}]{list_path[1:]}"
BadPath(rmi_index, list_path) ==
  <<F("ruleset_model_descriptions"), I(rmi_index)>> \o Tail(list_path)

\* InstanceBadPaths comparing the ids of each array on its own.
InstanceBadPathsPerArray(rmi_index, rmi) ==
  LET paths == json_paths_to_lists(rmi)
      idsOf(array) == find_all(<<Root, W, F("id")>>, array)
      flagged == {p \in paths :
                    \E k \in 1..Len(find_all(p, rmi)) :
                      NotUnique(idsOf(find_all(p, rmi)[k]))}
  IN  IF \E p \in paths : ~Hashable(IdsAt(p, rmi))
      THEN {Raised("TypeError")}
      ELSE {Returned([i \in 1..Cardinality(flagged) |-> BadPath(rmi_index, order[i])])
              : order \in Orderings(flagged)}

\* One pass of the outer loop: the lists of bad paths instance rmi can add, one
\* per iteration order of the set `paths`, or TypeError from set(ids).
InstanceBadPaths(rmi_index, rmi) ==
  LET paths == json_paths_to_lists(rmi)
      flagged == {p \in paths : Hashable(IdsAt(p, rmi)) /\ NotUnique(IdsAt(p, rmi))}
  IN  IF \E p \in paths : ~Hashable(IdsAt(p, rmi))
      THEN {Raised("TypeError")}
      ELSE {Returned([i \in 1..Cardinality(flagged) |-> BadPath(rmi_index, order[i])])
              : order \in Orderings(flagged)}

RECURSIVE BadPathsLoop(_, _, _)
\* for rmi_index, rmi in enumerate(ruleset_model_descriptions): every list
\* bad_paths can end as, or the exception raised on the way.
BadPathsLoop(items, k, bad_paths) ==
  IF k > Len(items) THEN {Returned(bad_paths)}
  ELSE UNION {IF o.raised THEN {o}
              ELSE BadPathsLoop(items, k + 1, bad_paths \o o.value)
                : o \in InstanceBadPaths(k - 1, items[k])}

\* error_msg = f"Non-unique ids for paths: {'; '.join(bad_paths)}" if bad_paths else ""
ErrorMsg(bad_paths) ==
  IF bad_paths # <<>>
  THEN <<Text("Non-unique ids for paths: ")>> \o Join(bad_paths)
  ELSE <<>>

\* The outcomes of check_unique_ids_in_ruleset_model_descriptions(rpd).
check_unique_ids_in_ruleset_model_descriptions(rpd_) ==
  LET got == GetRulesetModelDescriptions(rpd_) IN
  IF got.raised THEN {got}
  ELSE LET items == Iterate(got.value) IN
       IF items.raised THEN {items}
       ELSE {IF o.raised THEN o ELSE Returned(ErrorMsg(o.value))
               : o \in BadPathsLoop(items.value, 1, <<>>)}

(***************************************************************************)
(* The documents checked: bounded families of RPD trees.                   *)
(***************************************************************************)
\* Longest list of primary ids of a reference document.
MaxPrim == 2

\* Longest list of references under the first reference field.
MaxRefs == 2

\* Longest zones list of a building segment of a uniqueness document.
MaxZones == 2

SeqsUpTo(S, n) == UNION {[1..k -> S] : k \in 0..n}

Rpd(instances) == Obj("ruleset_model_descriptions" :> Arr(instances))

IdObj(id) == Obj("id" :> Str(id))

IdObjs(ids) == Arr([i \in 1..Len(ids) |-> IdObj(ids[i])])

\* The first element of a sequence as a sequence, and the others.
FirstOf(s) == IF s = <<>> THEN <<>> ELSE <<Head(s)>>

RestOf(s) == IF s = <<>> THEN <<>> ELSE Tail(s)

\* One element per reference, holding it in `field`.
RefObjs(field, refs) == Arr([i \in 1..Len(refs) |-> Obj(field :> Str(refs[i]))])

Relationships ==
  {"hvac", "zone", "fluid_loop", "schedule", "fluid_loop_or_piping",
   "service_water_heating"}

\* Ids that may be primary ids and ids that the first reference field may
\* hold: "A" can be a primary id and referenced, "B" is never referenced, "C"
\* is never a primary id.
PrimIds == {"A", "B"}

RefIds == {"A", "C"}

\* The references under the second reference field: none, or one to "C".
SecondRefs == {<<>>, <<"C">>}

\* The HVAC documents spell "A" as "sys-9" and "B" as "sys-1".
HvacId(id) == CASE id = "A" -> "sys-9" [] id = "B" -> "sys-1" [] OTHER -> id

HvacIds(ids) == [i \in 1..Len(ids) |-> HvacId(ids[i])]

\* A model description with primary ids `prim` and references `ra`, `rb`
\* for one relationship.
RefInstance(rel, prim, ra, rb) ==
  CASE rel = "hvac" ->
         Obj("buildings" :> Arr(<<Obj("building_segments" :> Arr(<<Obj(
           "heating_ventilating_air_conditioning_systems" :> IdObjs(HvacIds(prim)) @@
           "zones" :> Arr(<<
              Obj("id" :> Str("Y") @@ "terminals" :>
                  RefObjs("served_by_heating_ventilating_air_conditioning_system",
                          HvacIds(ra))),
              Obj("id" :> Str("Z") @@ "terminals" :>
                  RefObjs("served_by_heating_ventilating_air_conditioning_system",
                          HvacIds(rb)))>>))>>))>>))
    [] rel = "zone" ->
         Obj("buildings" :> Arr(<<Obj(
               "building_segments" :> Arr(<<Obj("zones" :> IdObjs(prim))>>) @@
               "elevators" :> RefObjs("motor_location_zone", ra))>>) @@
             "service_water_heating_equipment" :> RefObjs("compressor_zone", rb))
    [] rel = "fluid_loop" ->
         Obj("fluid_loops" :>
               (IF prim = <<>> THEN Arr(<<>>)
                ELSE Arr(<<Obj("id" :> Str(Head(prim)) @@
                               "child_loops" :> IdObjs(RestOf(prim)))>>)) @@
             "chillers" :> RefObjs("cooling_loop", ra) @@
             "service_water_heating_equipment" :> RefObjs("hot_water_loop", rb))
    [] rel = "schedule" ->
         Obj("schedules" :> IdObjs(prim) @@
             "service_water_heating_distribution_systems" :>
               RefObjs("flow_multiplier_schedule", ra) @@
             "buildings" :> RefObjs("building_open_schedule", rb))
    [] rel = "fluid_loop_or_piping" ->
         Obj("fluid_loops" :> IdObjs(FirstOf(prim)) @@
             "service_water_heating_distribution_systems" :>
               Arr(<<Obj("service_water_piping" :> IdObjs(RestOf(prim)))>>) @@
             "pumps" :> RefObjs("loop_or_piping", ra \o rb))
    [] rel = "service_water_heating" ->
         Obj("service_water_heating_distribution_systems" :> IdObjs(prim) @@
             "buildings" :> Arr(<<Obj("building_segments" :> Arr(<<Obj(
               "zones" :> RefObjs("served_by_service_water_heating_system", ra))>>))>>) @@
             "service_water_heating_equipment" :> RefObjs("distribution_system", rb))

RefDocs ==
  {Rpd(<<RefInstance(rel, prim, ra, rb)>>) :
     rel \in Relationships, prim \in SeqsUpTo(PrimIds, MaxPrim),
     ra \in SeqsUpTo(RefIds, MaxRefs), rb \in SecondRefs}

\* Elements of a zones list: with id "A", with id "B", without an id.
ZoneAlts == {IdObj("A"), IdObj("B"), EmptyObj}

ZonesWithId == {IdObj("A"), IdObj("B")}

\* A model description of one building with two segments (ids S and either S
\* or T) whose zones lists are z1 and z2.
UniqueInstance(z1, z2, same) ==
  Obj("buildings" :> Arr(<<Obj("id" :> Str("K") @@ "building_segments" :> Arr(<<
        Obj("id" :> Str("S") @@ "zones" :> Arr(z1)),
        Obj("id" :> Str(IF same THEN "S" ELSE "T") @@ "zones" :> Arr(z2))>>))>>))

UniqueInstances ==
  {UniqueInstance(z1, z2, same) :
     z1 \in SeqsUpTo(ZonesWithId, MaxZones), z2 \in SeqsUpTo(ZonesWithId, MaxZones),
     same \in BOOLEAN}

\* The instances of the two-instance documents: one zones list each.
PairInstances ==
  {UniqueInstance(z1, <<>>, same) :
     z1 \in SeqsUpTo(ZoneAlts, MaxZones), same \in BOOLEAN}

\* The instances put beside a PairInstance.
OtherInstances ==
  {EmptyObj,
   UniqueInstance(<<IdObj("A")>>, <<>>, FALSE),
   UniqueInstance(<<IdObj("A"), IdObj("A")>>, <<>>, FALSE)}

UniqueDocs ==
  {Rpd(<<u>>) : u \in UniqueInstances \cup PairInstances}
  \cup {Rpd(<<u, o>>) : u \in PairInstances, o \in OtherInstances}
  \cup {Rpd(<<o, u>>) : u \in PairInstances, o \in OtherInstances}

\* Documents of two model descriptions, the primary ids in one and the
\* references in the other.
CrossDocs ==
  UNION {{Rpd(<<RefInstance(rel, prim, <<>>, <<>>), RefInstance(rel, <<>>, ra, <<>>)>>),
          Rpd(<<RefInstance(rel, <<>>, ra, <<>>), RefInstance(rel, prim, <<>>, <<>>)>>)} :
           rel \in Relationships, prim \in {<<>>, <<"A">>}, ra \in {<<"A">>, <<"C">>}}

\* Documents of unusual shape: absent fields, non-array collections, ids and
\* references that are objects or arrays, lists of scalars, nested lists.
ShapeDocs ==
  {EmptyObj, Arr(<<>>), Rpd(<<>>), Rpd(<<EmptyObj>>),
   Obj("ruleset_model_descriptions" :> Num(5)),
   Obj("ruleset_model_descriptions" :> Null),
   Obj("ruleset_model_descriptions" :> Str("ab")),
   Obj("ruleset_model_descriptions" :> Obj("a" :> IdObjs(<<"A", "A">>))),
   Obj("id" :> Str("A") @@ "pumps" :> RefObjs("loop_or_piping", <<"C">>)),
   Rpd(<<Num(5)>>), Rpd(<<Str("ab"), Null>>),
   Rpd(<<IdObjs(<<"A", "A">>)>>),
   Rpd(<<Obj("pumps" :> Num(5) @@ "fluid_loops" :> EmptyObj)>>),
   Rpd(<<Obj("pumps" :> RefObjs("loop_or_piping", <<"C">>))>>),
   Rpd(<<Obj("pumps" :> Arr(<<Obj("loop_or_piping" :> EmptyObj)>>))>>),
   Rpd(<<Obj("pumps" :> Arr(<<Obj("loop_or_piping" :> Arr(<<>>))>>) @@
         "fluid_loops" :> Arr(<<Obj("id" :> Arr(<<>>))>>))>>),
   Rpd(<<Obj("fluid_loops" :> Arr(<<Obj("id" :> EmptyObj)>>))>>),
   Rpd(<<Obj("fluid_loops" :> Arr(<<Obj("id" :> EmptyObj), Obj("id" :> EmptyObj)>>))>>),
   Rpd(<<Obj("fluid_loops" :> Arr(<<Obj("id" :> Arr(<<Str("A")>>))>>))>>),
   Rpd(<<Obj("schedules" :> IdObjs(<<"A", "A">>)),
         Obj("fluid_loops" :> Arr(<<Obj("id" :> EmptyObj)>>))>>),
   Rpd(<<Obj("fluid_loops" :> Arr(<<Obj("id" :> Num(1)), Obj("id" :> Num(1))>>))>>),
   Rpd(<<Obj("fluid_loops" :> Arr(<<Obj("id" :> Num(1)), Obj("id" :> Str("A"))>>))>>),
   Rpd(<<Obj("fluid_loops" :> Arr(<<Obj("id" :> Null), Obj("id" :> Null)>>))>>),
   Rpd(<<Obj("fluid_loops" :> Arr(<<Str("A"), Str("A")>>))>>),
   Rpd(<<Obj("fluid_loops" :> Arr(<<IdObjs(<<"A">>), IdObjs(<<"A">>)>>))>>),
   Rpd(<<Obj("schedules" :> IdObjs(<<"A", "A">>) @@
         "fluid_loops" :> IdObjs(<<"B", "B">>) @@
         "buildings" :> RefObjs("building_open_schedule", <<"C", "C">>) @@
         "pumps" :> RefObjs("loop_or_piping", <<"C">>))>>)}

Documents == RefDocs \cup CrossDocs \cup UniqueDocs \cup ShapeDocs

(***************************************************************************)
(* The program: one call of an entry point on a document.                  *)
(***************************************************************************)
VARIABLES
  rpd,        \* the document passed to the call
  entry,      \* the function called
  pc,         \* "start", the next check of validate_references, "return",
              \* "done" (returned) or "raised" (left by an exception)
  ret,        \* what the call returned or raised
  passed, error, unique_id_error,          \* locals of validate_references
  mismatch_hvac_errors, mismatch_zone_errors, mismatch_fluid_loop_errors,
  mismatch_schedule_errors, mismatch_fluid_loop_piping_errors,
  mismatch_service_water_heating_errors

vars ==
  <<rpd, entry, pc, ret, passed, error, unique_id_error, mismatch_hvac_errors,
    mismatch_zone_errors, mismatch_fluid_loop_errors, mismatch_schedule_errors,
    mismatch_fluid_loop_piping_errors, mismatch_service_water_heating_errors>>

locals ==
  <<passed, error, unique_id_error, mismatch_hvac_errors, mismatch_zone_errors,
    mismatch_fluid_loop_errors, mismatch_schedule_errors,
    mismatch_fluid_loop_piping_errors, mismatch_service_water_heating_errors>>

Checks ==
  {"check_unique_ids_in_ruleset_model_descriptions", "check_hvac_association",
   "check_zone_association", "check_fluid_loop_association",
   "check_schedule_association", "check_fluid_loop_or_piping_association",
   "check_service_water_heating_association"}

Entries == Checks \cup {"validate_references"}

Init ==
  /\ rpd \in Documents
  /\ entry \in Entries
  /\ pc = "start"
  /\ ret = None
  /\ passed = None
  /\ error = <<>>
  /\ unique_id_error = <<>>
  /\ mismatch_hvac_errors = <<>>
  /\ mismatch_zone_errors = <<>>
  /\ mismatch_fluid_loop_errors = <<>>
  /\ mismatch_schedule_errors = <<>>
  /\ mismatch_fluid_loop_piping_errors = <<>>
  /\ mismatch_service_water_heating_errors = <<>>

\* A direct call of one dangling-reference check.
CallDangling(name, result) ==
  /\ entry = name
  /\ pc = "start"
  /\ ret' = Returned(result)
  /\ pc' = "done"
  /\ UNCHANGED <<rpd, entry, locals>>

CallHvac == CallDangling("check_hvac_association", check_hvac_association(rpd))

CallZone == CallDangling("check_zone_association", check_zone_association(rpd))

CallFluidLoop ==
  CallDangling("check_fluid_loop_association", check_fluid_loop_association(rpd))

CallSchedule ==
  CallDangling("check_schedule_association", check_schedule_association(rpd))

CallFluidLoopOrPiping ==
  CallDangling("check_fluid_loop_or_piping_association",
               check_fluid_loop_or_piping_association(rpd))

CallServiceWaterHeating ==
  CallDangling("check_service_water_heating_association",
               check_service_water_heating_association(rpd))

\* A direct call of the uniqueness check.
CallUniqueIds ==
  /\ entry = "check_unique_ids_in_ruleset_model_descriptions"
  /\ pc = "start"
  /\ \E o \in check_unique_ids_in_ruleset_model_descriptions(rpd) :
       /\ ret' = o
       /\ pc' = IF o.raised THEN "raised" ELSE "done"
  /\ UNCHANGED <<rpd, entry, locals>>

\* error.append(f"{head}{mismatch}{tail}")
Message(head, mismatch, tail) == <<Text(head), ListText(mismatch), Text(tail)>>

\* validate_references, lines 426-430.
ValidateUniqueIds ==
  /\ entry = "validate_references"
  /\ pc = "start"
  /\ \E o \in check_unique_ids_in_ruleset_model_descriptions(rpd) :
       IF o.raised
       THEN /\ ret' = o
            /\ pc' = "raised"
            /\ UNCHANGED <<unique_id_error, passed, error>>
       ELSE /\ unique_id_error' = o.value
            /\ passed' = (o.value = <<>>)
            /\ error' = IF o.value # <<>> THEN <<o.value>> ELSE <<>>
            /\ pc' = "hvac"
            /\ UNCHANGED ret
  /\ UNCHANGED <<rpd, entry, mismatch_hvac_errors, mismatch_zone_errors,
                 mismatch_fluid_loop_errors, mismatch_schedule_errors,
                 mismatch_fluid_loop_piping_errors,
                 mismatch_service_water_heating_errors>>

\* AndNot forgetting the earlier checks: passed = not mismatch
AndNotOverwrite(p, mismatch) == mismatch = <<>>

\* passed = passed and not mismatch
AndNot(p, mismatch) == IF p THEN mismatch = <<>> ELSE p

\* validate_references, lines 432-437.
ValidateHvac ==
  /\ entry = "validate_references"
  /\ pc = "hvac"
  /\ mismatch_hvac_errors' = check_hvac_association(rpd)
  /\ passed' = AndNot(passed, mismatch_hvac_errors')
  /\ error' = IF mismatch_hvac_errors' # <<>>
              THEN Append(error, Message("Cannot find HVAC systems ",
                     mismatch_hvac_errors',
                     " in the HeatingVentilationAirConditioningSystems data group."))
              ELSE error
  /\ pc' = "zone"
  /\ UNCHANGED <<rpd, entry, ret, unique_id_error, mismatch_zone_errors,
                 mismatch_fluid_loop_errors, mismatch_schedule_errors,
                 mismatch_fluid_loop_piping_errors,
                 mismatch_service_water_heating_errors>>

\* validate_references, lines 439-444.
ValidateZone ==
  /\ entry = "validate_references"
  /\ pc = "zone"
  /\ mismatch_zone_errors' = check_zone_association(rpd)
  /\ passed' = AndNot(passed, mismatch_zone_errors')
  /\ error' = IF mismatch_zone_errors' # <<>>
              THEN Append(error, Message("Cannot find zones ", mismatch_zone_errors',
                                         " in the Zone data group."))
              ELSE error
  /\ pc' = "fluid_loop"
  /\ UNCHANGED <<rpd, entry, ret, unique_id_error, mismatch_hvac_errors,
                 mismatch_fluid_loop_errors, mismatch_schedule_errors,
                 mismatch_fluid_loop_piping_errors,
                 mismatch_service_water_heating_errors>>

\* validate_references, lines 446-451.
ValidateFluidLoop ==
  /\ entry = "validate_references"
  /\ pc = "fluid_loop"
  /\ mismatch_fluid_loop_errors' = check_fluid_loop_association(rpd)
  /\ passed' = AndNot(passed, mismatch_fluid_loop_errors')
  /\ error' = IF mismatch_fluid_loop_errors' # <<>>
              THEN Append(error, Message("Cannot find fluid loop ",
                     mismatch_fluid_loop_errors', " in the FluidLoop data group."))
              ELSE error
  /\ pc' = "schedule"
  /\ UNCHANGED <<rpd, entry, ret, unique_id_error, mismatch_hvac_errors,
                 mismatch_zone_errors, mismatch_schedule_errors,
                 mismatch_fluid_loop_piping_errors,
                 mismatch_service_water_heating_errors>>

\* validate_references, lines 453-458.
ValidateSchedule ==
  /\ entry = "validate_references"
  /\ pc = "schedule"
  /\ mismatch_schedule_errors' = check_schedule_association(rpd)
  /\ passed' = AndNot(passed, mismatch_schedule_errors')
  /\ error' = IF mismatch_schedule_errors' # <<>>
              THEN Append(error, Message("Cannot find schedule ",
                     mismatch_schedule_errors', " in the Schedule data group."))
              ELSE error
  /\ pc' = "fluid_loop_or_piping"
  /\ UNCHANGED <<rpd, entry, ret, unique_id_error, mismatch_hvac_errors,
                 mismatch_zone_errors, mismatch_fluid_loop_errors,
                 mismatch_fluid_loop_piping_errors,
                 mismatch_service_water_heating_errors>>

\* validate_references, lines 460-465: the message is formatted with
\* mismatch_schedule_errors.
ValidateFluidLoopOrPiping ==
  /\ entry = "validate_references"
  /\ pc = "fluid_loop_or_piping"
  /\ mismatch_fluid_loop_piping_errors' = check_fluid_loop_or_piping_association(rpd)
  /\ passed' = AndNot(passed, mismatch_fluid_loop_piping_errors')
  /\ error' = IF mismatch_fluid_loop_piping_errors' # <<>>
              THEN Append(error, Message("Cannot find piping ",
                     mismatch_schedule_errors,
                     " in the FluidLoop or ServiceWaterHeatingDistributionSystems data group."))
              ELSE error
  /\ pc' = "service_water_heating"
  /\ UNCHANGED <<rpd, entry, ret, unique_id_error, mismatch_hvac_errors,
                 mismatch_zone_errors, mismatch_fluid_loop_errors,
                 mismatch_schedule_errors, mismatch_service_water_heating_errors>>

\* validate_references, lines 467-474.
ValidateServiceWaterHeating ==
  /\ entry = "validate_references"
  /\ pc = "service_water_heating"
  /\ mismatch_service_water_heating_errors' =
       check_service_water_heating_association(rpd)
  /\ passed' = AndNot(passed, mismatch_service_water_heating_errors')
  /\ error' = IF mismatch_service_water_heating_errors' # <<>>
              THEN Append(error, Message("Cannot find service water heating ",
                     mismatch_service_water_heating_errors',
                     " in the ServiceWaterHeatingDistributionSystems data group."))
              ELSE error
  /\ pc' = "return"
  /\ UNCHANGED <<rpd, entry, ret, unique_id_error, mismatch_hvac_errors,
                 mismatch_zone_errors, mismatch_fluid_loop_errors,
                 mismatch_schedule_errors, mismatch_fluid_loop_piping_errors>>

\* ReturnValue returning the error list even when it is empty.
ReturnValueList(passed_, error_) == [passed |-> passed_, error |-> ListText(error_)]

\* {"passed": passed, "error": error if error else None}
ReturnValue(passed_, error_) ==
  [passed |-> passed_, error |-> IF error_ # <<>> THEN ListText(error_) ELSE None]

\* validate_references, line 476.
ValidateReturn ==
  /\ entry = "validate_references"
  /\ pc = "return"
  /\ ret' = Returned(ReturnValue(passed, error))
  /\ pc' = "done"
  /\ UNCHANGED <<rpd, entry, locals>>

Next ==
  \/ CallHvac
  \/ CallZone
  \/ CallFluidLoop
  \/ CallSchedule
  \/ CallFluidLoopOrPiping
  \/ CallServiceWaterHeating
  \/ CallUniqueIds
  \/ ValidateUniqueIds
  \/ ValidateHvac
  \/ ValidateZone
  \/ ValidateFluidLoop
  \/ ValidateSchedule
  \/ ValidateFluidLoopOrPiping
  \/ ValidateServiceWaterHeating
  \/ ValidateReturn

Spec == Init /\ [][Next]_vars

(***************************************************************************)
(* Properties.                                                             *)
(***************************************************************************)
\* The call of `name` has returned.
Done(name) == entry = name /\ pc = "done"

DanglingChecks == Checks \ {"check_unique_ids_in_ruleset_model_descriptions"}

\* The primary-id paths and the reference paths each check declares.
PrimaryPathsOf(name) ==
  CASE name = "check_hvac_association" -> <<hvac_id_jsonpath>>
    [] name = "check_zone_association" -> <<zone_id_jsonpath>>
    [] name = "check_fluid_loop_association" -> fluid_loop_id_jsonpaths
    [] name = "check_schedule_association" -> <<schedule_id_jsonpath>>
    [] name = "check_fluid_loop_or_piping_association" ->
         fluid_loop_or_piping_id_jsonpaths
    [] name = "check_service_water_heating_association" ->
         <<service_water_heating_id_jsonpath>>

ReferencePathsOf(name) ==
  CASE name = "check_hvac_association" -> <<served_by_hvac_jsonpath>>
    [] name = "check_zone_association" -> zone_reference_jsonpaths
    [] name = "check_fluid_loop_association" -> fluid_reference_jsonpaths
    [] name = "check_schedule_association" -> schedule_reference_jsonpaths
    [] name = "check_fluid_loop_or_piping_association" ->
         <<loop_or_piping_reference_jsonpath>>
    [] name = "check_service_water_heating_association" ->
         service_water_heating_reference_jsonpaths

\* The values of a sequence, as a set.
Range(s) == {s[i] : i \in 1..Len(s)}

\* The set of primary ids and the sequence of referenced values of a check.
PrimaryIds(name, doc) == Range(find_all_by_jsonpaths(PrimaryPathsOf(name), doc))

Referenced(name, doc) == find_all_by_jsonpaths(ReferencePathsOf(name), doc)

\* `seq` without the values of the set `ids`: order and duplicates kept.
Without(seq, ids) == SelectSeq(seq, LAMBDA x : x \notin ids)

\* The documents of the two examples of the dangling-reference contract.
ExampleACC == Rpd(<<RefInstance("schedule", <<"A", "B">>, <<"A", "C">>, <<"C">>)>>)

ExampleSys9Missing == Rpd(<<RefInstance("hvac", <<>>, <<"A">>, <<>>)>>)

ExampleSys9Added == Rpd(<<RefInstance("hvac", <<"A">>, <<"A">>, <<>>)>>)

\* C1: each dangling-reference check returns the referenced values (the results
\* of its reference paths concatenated in declaration order) without those that
\* occur among its primary ids, order and duplicates kept; primary ids {A,B} and
\* references [A,C,C] give [C,C]; a terminal served by the missing HVAC system
\* sys-9 gives [sys-9], and [] once that system is added.
C1_DanglingResult ==
  /\ \A name \in DanglingChecks :
       Done(name) =>
         /\ ~ret.raised
         /\ ret.value = Without(Referenced(name, rpd), PrimaryIds(name, rpd))
         /\ \A i \in 1..Len(ret.value) : ret.value[i] \notin PrimaryIds(name, rpd)
  /\ (Done("check_schedule_association") /\ rpd = ExampleACC)
       => ret.value = <<Str("C"), Str("C")>>
  /\ (Done("check_hvac_association") /\ rpd = ExampleSys9Missing)
       => ret.value = <<Str("sys-9")>>
  /\ (Done("check_hvac_association") /\ rpd = ExampleSys9Added)
       => ret.value = <<>>

\* A check of primary ids {A,B} and references [A,C,C] has returned [C,C].
C1_Witness ==
  /\ Done("check_schedule_association")
  /\ rpd = ExampleACC
  /\ PrimaryIds("check_schedule_association", rpd) = {Str("A"), Str("B")}
  /\ Referenced("check_schedule_association", rpd) = <<Str("A"), Str("C"), Str("C")>>
  /\ ret.value = <<Str("C"), Str("C")>>

\* Whether a check yields a non-empty result on a document.
Fails(name, doc) ==
  CASE name = "check_unique_ids_in_ruleset_model_descriptions" ->
         \E o \in check_unique_ids_in_ruleset_model_descriptions(doc) :
           ~o.raised /\ o.value # <<>>
    [] name = "check_hvac_association" -> check_hvac_association(doc) # <<>>
    [] name = "check_zone_association" -> check_zone_association(doc) # <<>>
    [] name = "check_fluid_loop_association" ->
         check_fluid_loop_association(doc) # <<>>
    [] name = "check_schedule_association" -> check_schedule_association(doc) # <<>>
    [] name = "check_fluid_loop_or_piping_association" ->
         check_fluid_loop_or_piping_association(doc) # <<>>
    [] name = "check_service_water_heating_association" ->
         check_service_water_heating_association(doc) # <<>>

\* The positions of validate_references after its k-th check has run.
Stages ==
  <<"hvac", "zone", "fluid_loop", "schedule", "fluid_loop_or_piping",
    "service_water_heating", "return">>

\* The checks in the order validate_references runs them.
CheckOrder ==
  <<"check_unique_ids_in_ruleset_model_descriptions", "check_hvac_association",
    "check_zone_association", "check_fluid_loop_association",
    "check_schedule_association", "check_fluid_loop_or_piping_association",
    "check_service_water_heating_association">>

\* C2: validate_references returns passed = False exactly when at least one of
\* the seven checks yields a non-empty result; after the k-th check has run,
\* passed is False exactly when one of the first k checks failed, whatever the
\* earlier checks returned, and the call then goes on to the next check.
C2_PassedIffNoFailure ==
  /\ Done("validate_references") =>
       /\ ~ret.raised
       /\ ret.value.passed = (~\E name \in Checks : Fails(name, rpd))
  /\ \A k \in 1..Len(Stages) :
       (entry = "validate_references" /\ pc = Stages[k]) =>
         /\ passed = (~\E j \in 1..k : Fails(CheckOrder[j], rpd))
         /\ ENABLED Next

\* validate_references has returned passed = False for a document on which both
\* the uniqueness check and a later check fail.
C2_Witness ==
  /\ Done("validate_references")
  /\ ret.value.passed = FALSE
  /\ Fails("check_unique_ids_in_ruleset_model_descriptions", rpd)
  /\ Fails("check_fluid_loop_or_piping_association", rpd)
  /\ ~Fails("check_hvac_association", rpd)

\* The text that opens the error entry of each check.
EntryHead(name) ==
  CASE name = "check_unique_ids_in_ruleset_model_descriptions" ->
         "Non-unique ids for paths: "
    [] name = "check_hvac_association" -> "Cannot find HVAC systems "
    [] name = "check_zone_association" -> "Cannot find zones "
    [] name = "check_fluid_loop_association" -> "Cannot find fluid loop "
    [] name = "check_schedule_association" -> "Cannot find schedule "
    [] name = "check_fluid_loop_or_piping_association" -> "Cannot find piping "
    [] name = "check_service_water_heating_association" ->
         "Cannot find service water heating "

\* The failing checks of a document, in the order they are run.
FailingChecks(doc) == SelectSeq(CheckOrder, LAMBDA name : Fails(name, doc))

\* C3: the error list returned by validate_references holds exactly one entry
\* per failing check, in the order unique ids, HVAC, zone, fluid loop, schedule,
\* fluid loop or piping, service water heating; passed is True exactly when
\* "error" is None and False exactly when it is a non-empty list.
C3_OneEntryPerFailingCheck ==
  Done("validate_references") =>
    LET failing == FailingChecks(rpd)
        err == ret.value.error
    IN  /\ (err = None) = (failing = <<>>)
        /\ err # None =>
             /\ err.tok = "list"
             /\ Len(err.v) = Len(failing)
             /\ \A i \in 1..Len(failing) : err.v[i][1] = Text(EntryHead(failing[i]))
        /\ (ret.value.passed = TRUE) = (err = None)
        /\ (ret.value.passed = FALSE) = (err # None /\ err.tok = "list" /\ err.v # <<>>)

\* validate_references has returned three entries for a document with two
\* non-unique paths, two dangling schedules and one dangling piping reference.
C3_Witness ==
  /\ Done("validate_references")
  /\ ret.value.error # None
  /\ Len(ret.value.error.v) = 3
  /\ Len(unique_id_error) = 4
  /\ Len(mismatch_schedule_errors) = 2
  /\ Len(mismatch_fluid_loop_piping_errors) = 1

\* The model descriptions of a document whose ruleset_model_descriptions is an
\* array.
ModelDescriptions(doc) ==
  IF /\ doc.t = "obj"
     /\ "ruleset_model_descriptions" \in DOMAIN doc.v
     /\ doc.v["ruleset_model_descriptions"].t = "arr"
  THEN doc.v["ruleset_model_descriptions"].v
  ELSE <<>>

\* The paths an error message of the uniqueness check lists, in order.
ReportedPaths(msg) ==
  LET toks == SelectSeq(msg, LAMBDA tk : tk.tok = "path")
  IN  [k \in 1..Len(toks) |-> toks[k].v]

\* How often x occurs in seq.
Count(seq, x) == Cardinality({k \in 1..Len(seq) : seq[k] = x})

\* Two positions of ids hold the same value.
HasRepeat(ids) == \E k, l \in 1..Len(ids) : k < l /\ ids[k] = ids[l]

\* The id values that occur more than once in ids.
RepeatedIds(ids) == {ids[k] : k \in {m \in 1..Len(ids) : Count(ids, ids[m]) > 1}}

\* C4: a list path of an instance whose ids repeat is listed exactly once for
\* that instance, however many ids repeat and however often, a list path whose
\* ids do not repeat is not listed, and the result is empty exactly when no
\* list path of any instance has a repeated id.
C4_FlaggedExactlyOnce ==
  Done("check_unique_ids_in_ruleset_model_descriptions") =>
    LET reported == ReportedPaths(ret.value)
        insts == ModelDescriptions(rpd)
    IN  /\ \A i \in 1..Len(insts) : \A p \in json_paths_to_lists(insts[i]) :
             Count(reported, BadPath(i - 1, p)) =
               IF HasRepeat(IdsAt(p, insts[i])) THEN 1 ELSE 0
        /\ (ret.value = <<>>) =
             (~\E i \in 1..Len(insts) : \E p \in json_paths_to_lists(insts[i]) :
                 HasRepeat(IdsAt(p, insts[i])))

\* The uniqueness check has returned a message listing once a path under which
\* two different ids repeat.
C4_Witness ==
  /\ Done("check_unique_ids_in_ruleset_model_descriptions")
  /\ \E i \in 1..Len(ModelDescriptions(rpd)) :
       \E p \in json_paths_to_lists(ModelDescriptions(rpd)[i]) :
         /\ Cardinality(RepeatedIds(IdsAt(p, ModelDescriptions(rpd)[i]))) >= 2
         /\ Count(ReportedPaths(ret.value), BadPath(i - 1, p)) = 1

\* The list paths (from "$") a message lists for the instance of index i.
ReportedFor(msg, i) ==
  {<<Root>> \o SubSeq(bp, 3, Len(bp)) :
     bp \in {q \in Range(ReportedPaths(msg)) : q[2] = <<"i", i>>}}

\* The list paths the uniqueness check lists for an instance checked alone.
FlaggedAlone(inst) ==
  UNION {ReportedFor(o.value, 0) :
           o \in {r \in check_unique_ids_in_ruleset_model_descriptions(Rpd(<<inst>>)) :
                    ~r.raised}}

\* C5: what the uniqueness check lists for instance i is what it lists for a
\* document holding instance i alone; a list path whose ids are distinct within
\* instance i is not listed for i whatever the other instances hold; and every
\* listed path is ruleset_model_descriptions[i] followed by a list path of
\* instance i whose ids repeat within instance i.
C5_InstancesIndependent ==
  Done("check_unique_ids_in_ruleset_model_descriptions") =>
    LET reported == ReportedPaths(ret.value)
        insts == ModelDescriptions(rpd)
    IN  /\ \A i \in 1..Len(insts) :
             ReportedFor(ret.value, i - 1) = FlaggedAlone(insts[i])
        /\ \A k \in 1..Len(reported) :
             /\ Len(reported[k]) >= 2
             /\ reported[k][1] = <<"f", "ruleset_model_descriptions">>
             /\ reported[k][2][1] = "i"
             /\ reported[k][2][2] \in 0..(Len(insts) - 1)
             /\ LET inst == insts[reported[k][2][2] + 1]
                    p == <<Root>> \o SubSeq(reported[k], 3, Len(reported[k]))
                IN  /\ p \in json_paths_to_lists(inst)
                    /\ HasRepeat(IdsAt(p, inst))

\* The generalized path of the zones lists of an instance.
ZonesPath == Parse(<<"buildings", "*", "building_segments", "*", "zones">>)

\* The uniqueness check has returned for a document of two instances in which
\* id A occurs once in the zones of instance 0 and twice in those of instance 1:
\* the zones path is listed for instance 1 only.
C5_Witness ==
  /\ Done("check_unique_ids_in_ruleset_model_descriptions")
  /\ Len(ModelDescriptions(rpd)) = 2
  /\ IdsAt(ZonesPath, ModelDescriptions(rpd)[1]) = <<Str("A")>>
  /\ IdsAt(ZonesPath, ModelDescriptions(rpd)[2]) = <<Str("A"), Str("A")>>
  /\ ReportedPaths(ret.value) =
       <<<<F("ruleset_model_descriptions"), I(1)>> \o Tail(ZonesPath)>>

\* C6: no check raises, whatever the shape of the document.
C6_NoCheckRaises == pc # "raised"

RECURSIVE Reaches(_, _)
\* Some branch of node matches every step.
Reaches(steps, node) ==
  IF steps = <<>> THEN TRUE
  ELSE IF Head(steps) = W
       THEN node.t = "arr" /\ \E k \in 1..Len(node.v) : Reaches(Tail(steps), node.v[k])
       ELSE /\ node.t = "obj"
            /\ Head(steps)[2] \in DOMAIN node.v
            /\ Reaches(Tail(steps), node.v[Head(steps)[2]])

RECURSIVE ValuesOfPresent(_, _)
\* The values found by the paths that some branch of the document matches.
ValuesOfPresent(jpaths, doc) ==
  IF jpaths = <<>> THEN <<>>
  ELSE (IF Reaches(Tail(Head(jpaths)), doc) THEN find_all(Head(jpaths), doc) ELSE <<>>)
       \o ValuesOfPresent(Tail(jpaths), doc)

\* The document is an object without a ruleset_model_descriptions field.
NoModelDescriptions(doc) ==
  doc.t = "obj" /\ "ruleset_model_descriptions" \notin DOMAIN doc.v

\* C7: absence is silent. On a document without ruleset_model_descriptions no
\* call raises, every check returns an empty result and validate_references
\* returns passed = True and error = None; and a path whose branch is missing
\* from the document adds nothing to a dangling-reference check's result.
C7_AbsenceIsSilent ==
  /\ NoModelDescriptions(rpd) =>
       /\ pc # "raised"
       /\ pc = "done" =>
            ret = Returned(IF entry = "validate_references"
                           THEN [passed |-> TRUE, error |-> None]
                           ELSE <<>>)
  /\ \A name \in DanglingChecks :
       Done(name) =>
         ret = Returned(Without(ValuesOfPresent(ReferencePathsOf(name), rpd),
                                Range(ValuesOfPresent(PrimaryPathsOf(name), rpd))))

\* validate_references has returned passed = True and error = None for the
\* empty document.
C7_Witness ==
  /\ Done("validate_references")
  /\ rpd = EmptyObj
  /\ ret.value = [passed |-> TRUE, error |-> None]

RECURSIVE Locations(_, _, _)
\* The places of the document that `steps` matches from `node` at place `at`,
\* each with the value it holds.
Locations(steps, node, at) ==
  IF steps = <<>> THEN {[at |-> at, value |-> node]}
  ELSE IF Head(steps) = W
       THEN IF node.t = "arr"
            THEN UNION {Locations(Tail(steps), node.v[k], Append(at, <<"i", k - 1>>))
                          : k \in 1..Len(node.v)}
            ELSE {}
       ELSE IF node.t = "obj" /\ Head(steps)[2] \in DOMAIN node.v
            THEN Locations(Tail(steps), node.v[Head(steps)[2]],
                           Append(at, Head(steps)))
            ELSE {}

\* The referencing fields of a check in a document.
ReferencingFields(name, doc) ==
  UNION {Locations(Tail(ReferencePathsOf(name)[k]), doc, <<>>)
           : k \in 1..Len(ReferencePathsOf(name))}

\* C8: a dangling id is returned as many times as the document has referencing
\* fields holding it.
C8_OncePerReferencingField ==
  \A name \in DanglingChecks :
    Done(name) =>
      \A x \in Range(ret.value) :
        Count(ret.value, x) =
          Cardinality({l \in ReferencingFields(name, rpd) : l.value = x})

\* The elements of the lists at list_path that carry an id field.
Carriers(list_path, inst) ==
  SelectSeq(find_all(Append(list_path, W), inst),
            LAMBDA e : e.t = "obj" /\ "id" \in DOMAIN e.v)

\* C9: a list path none of whose elements has an id field is never listed, and
\* a listed path has at least two elements that carry an id and share its value.
C9_NoIdNeverFlagged ==
  Done("check_unique_ids_in_ruleset_model_descriptions") =>
    LET insts == ModelDescriptions(rpd) IN
    \A i \in 1..Len(insts) : \A p \in json_paths_to_lists(insts[i]) :
      LET carriers == Carriers(p, insts[i]) IN
      /\ carriers = <<>> => ReportedFor(ret.value, i - 1) \cap {p} = {}
      /\ p \in ReportedFor(ret.value, i - 1) =>
           \E k, l \in 1..Len(carriers) :
             k < l /\ carriers[k].v["id"] = carriers[l].v["id"]

\* The uniqueness check has returned without listing a zones list of two
\* elements that have no id.
C9_Witness ==
  /\ Done("check_unique_ids_in_ruleset_model_descriptions")
  /\ Len(ModelDescriptions(rpd)) = 1
  /\ find_all(Append(ZonesPath, W), ModelDescriptions(rpd)[1]) = <<EmptyObj, EmptyObj>>
  /\ ZonesPath \notin ReportedFor(ret.value, 0)

\* The ids of the elements of one array.
IdsOfArray(array) ==
  LET withId == SelectSeq(array.v, LAMBDA e : e.t = "obj" /\ "id" \in DOMAIN e.v)
  IN  [k \in 1..Len(withId) |-> withId[k].v["id"]]

\* The arrays of an instance at a generalized path.
ArraysAt(list_path, inst) ==
  SelectSeq(find_all(list_path, inst), LAMBDA a : a.t = "arr")

\* Two elements of the arrays at list_path, whether of one array or of two,
\* hold the same id.
PooledRepeat(list_path, inst) ==
  LET arrays == ArraysAt(list_path, inst) IN
  \E a, b \in 1..Len(arrays) :
    \E k \in 1..Len(IdsOfArray(arrays[a])) : \E l \in 1..Len(IdsOfArray(arrays[b])) :
      /\ <<a, k>> # <<b, l>>
      /\ IdsOfArray(arrays[a])[k] = IdsOfArray(arrays[b])[l]

\* C10: within one instance a generalized path is listed exactly when the ids
\* collected over all the arrays at that path contain a repeat, also when the
\* two elements belong to arrays of different parents.
C10_PooledOverArrays ==
  Done("check_unique_ids_in_ruleset_model_descriptions") =>
    LET insts == ModelDescriptions(rpd) IN
    \A i \in 1..Len(insts) : \A p \in json_paths_to_lists(insts[i]) :
      (p \in ReportedFor(ret.value, i - 1)) = PooledRepeat(p, insts[i])

\* The uniqueness check has listed the zones path of an instance whose two
\* building segments each hold one zone of id A.
C10_Witness ==
  /\ Done("check_unique_ids_in_ruleset_model_descriptions")
  /\ Len(ModelDescriptions(rpd)) = 1
  /\ LET arrays == ArraysAt(ZonesPath, ModelDescriptions(rpd)[1]) IN
       /\ Len(arrays) = 2
       /\ IdsOfArray(arrays[1]) = <<Str("A")>>
       /\ IdsOfArray(arrays[2]) = <<Str("A")>>
  /\ ZonesPath \in ReportedFor(ret.value, 0)

\* A document holding one model description alone.
Alone(inst) == Rpd(<<inst>>)

\* The values that are primary ids of a check in some model description.
PooledPrimaryIds(name, doc) ==
  UNION {PrimaryIds(name, Alone(ModelDescriptions(doc)[j]))
           : j \in 1..Len(ModelDescriptions(doc))}

\* C11: the dangling-reference checks pool the primary ids of all model
\* descriptions: a value referenced in instance i is returned exactly when it
\* is a primary id in no instance, so a reference whose target is defined only
\* in another instance is not returned.
C11_PrimaryIdsPooled ==
  \A name \in DanglingChecks :
    Done(name) =>
      \A i \in 1..Len(ModelDescriptions(rpd)) :
        \A x \in Range(Referenced(name, Alone(ModelDescriptions(rpd)[i]))) :
          (x \in Range(ret.value)) = (x \notin PooledPrimaryIds(name, rpd))

\* The piping check has returned nothing for a pump of the second model
\* description whose loop A is defined in the first one only.
C11_Witness ==
  /\ Done("check_fluid_loop_or_piping_association")
  /\ Len(ModelDescriptions(rpd)) = 2
  /\ Referenced("check_fluid_loop_or_piping_association",
                Alone(ModelDescriptions(rpd)[2])) = <<Str("A")>>
  /\ PrimaryIds("check_fluid_loop_or_piping_association",
                Alone(ModelDescriptions(rpd)[2])) = {}
  /\ PrimaryIds("check_fluid_loop_or_piping_association",
                Alone(ModelDescriptions(rpd)[1])) = {Str("A")}
  /\ ret.value = <<>>

\* The error entries of a returned error value that open with `head`.
EntriesOf(err, head) ==
  IF err = None THEN <<>> ELSE SelectSeq(err.v, LAMBDA e : e[1] = Text(head))

\* C12: the error entry validate_references adds for a failing
\* check_fluid_loop_or_piping_association lists exactly the values that check
\* returned, whatever check_schedule_association or any other check returned.
C12_PipingEntryListsItsOwnMismatches ==
  (Done("validate_references") /\ Fails("check_fluid_loop_or_piping_association", rpd)) =>
    LET entries == EntriesOf(ret.value.error,
                             EntryHead("check_fluid_loop_or_piping_association"))
    IN  /\ Len(entries) = 1
        /\ entries[1][2] = ListText(check_fluid_loop_or_piping_association(rpd))

=============================================================================
